---- MODULE Spec2Model ----
(***************************************************************************)
(* Model of the job_search repository: the click commands of cli.py, the   *)
(* pydantic schemas of models.py, the JobSearchFlow of flows/jod_search.py,*)
(* the sequential JobSearchCrew and its two tools.                         *)
(*                                                                         *)
(* Python values: a str is a TLA+ string (or a sequence of one-character   *)
(* strings where the code looks inside it), None is the constant None, a   *)
(* list is a sequence and a dict is a function from its keys.              *)
(***************************************************************************)
EXTENDS Integers, Sequences, FiniteSets, TLC

\* ------------------------------------------------------------------------
\* Bounds of the model
\* ------------------------------------------------------------------------
\* most individual flags given on one job_search command line
MaxFlags == 1
\* most calls an agent makes to its tool while executing one task
MaxToolCalls == 1

\* ------------------------------------------------------------------------
\* Python values
\* ------------------------------------------------------------------------
None == "<None>"

EmptyDict == [k \in {} |-> None]

\* dict.get(key, default)
Get(d, k, default) == IF k \in DOMAIN d THEN d[k] ELSE default

\* d[k] = v on a dict
Put(d, k, v) == [x \in DOMAIN d \cup {k} |-> IF x = k THEN v ELSE d[x]]

\* truth value of a str (or None), of an int and of a dict
TruthyStr(s) == s # None /\ s # ""
TruthyInt(n) == n # 0
TruthyDict(d) == DOMAIN d # {}

\* ------------------------------------------------------------------------
\* str.split(",") and str.strip() on a string given as a character sequence
\* ------------------------------------------------------------------------
RECURSIVE SplitComma(_)
SplitComma(s) ==
    IF \A i \in 1..Len(s) : s[i] # ","
    THEN <<s>>
    ELSE LET p == CHOOSE i \in 1..Len(s) :
                     s[i] = "," /\ \A j \in 1..(i - 1) : s[j] # ","
         IN  <<SubSeq(s, 1, p - 1)>> \o SplitComma(SubSeq(s, p + 1, Len(s)))

RECURSIVE Strip(_)
Strip(s) ==
    IF s = <<>> THEN s
    ELSE IF Head(s) = " " THEN Strip(Tail(s))
    ELSE IF s[Len(s)] = " " THEN Strip(SubSeq(s, 1, Len(s) - 1))
    ELSE s

\* [x.strip() for x in text.split(",")]           cli.py:122, cli.py:125
SplitList(text) == [i \in 1..Len(SplitComma(text)) |-> Strip(SplitComma(text)[i])]

\* ------------------------------------------------------------------------
\* json.load / json.loads: a JSON text either is malformed or denotes a value
\* ------------------------------------------------------------------------
Malformed == [wellformed |-> FALSE]
Json(v) == [wellformed |-> TRUE, value |-> v]
JsonDecodes(text) == text.wellformed
json_loads(text) == text.value

\* ------------------------------------------------------------------------
\* models.py: the pydantic schemas.  <X>Errors is the list of errors that
\* constructing X from a mapping raises in its ValidationError (a set of
\* [loc, msg] entries, empty when construction succeeds) and <X>Dump is
\* model_dump() of the constructed model.
\* ------------------------------------------------------------------------
MinResults == 1
MaxResults == 100
DefaultResults == 10

ValidEmails == {"ann@x.org", "bob@y.org", "john.doe@email.com"}
ValidEmail(e) == e \in ValidEmails

Err(prefix, field, msg) == [loc |-> prefix \o <<field>>, msg |-> msg]

\* a field declared with Field(...) is required
Missing(d, fields, prefix) ==
    {Err(prefix, f, "Field required") : f \in fields \ DOMAIN d}

\* loc of element i of a list field (pydantic counts from 0)
Item(prefix, field, i) == prefix \o <<field, ToString(i - 1)>>

ProjectErrors(p, prefix) == Missing(p, {"name", "description"}, prefix)

ProjectDump(p) ==
    [name |-> p.name, description |-> p.description,
     technologies |-> Get(p, "technologies", <<>>)]

ExperienceErrors(e, prefix) ==
    Missing(e, {"title", "company", "duration", "description"}, prefix)
    \cup UNION {ProjectErrors(Get(e, "projects", <<>>)[i], Item(prefix, "projects", i)) :
                   i \in 1..Len(Get(e, "projects", <<>>))}

ExperienceDump(e) ==
    [title |-> e.title, company |-> e.company, duration |-> e.duration,
     description |-> e.description,
     projects |-> [i \in 1..Len(Get(e, "projects", <<>>)) |-> ProjectDump(e.projects[i])]]

EducationErrors(e, prefix) == Missing(e, {"degree", "school", "year"}, prefix)

EducationDump(e) == [degree |-> e.degree, school |-> e.school, year |-> e.year]

UserProfileErrors(d, prefix) ==
    Missing(d, {"name", "email"}, prefix)
    \cup (IF "email" \in DOMAIN d /\ ~ValidEmail(d.email)
          THEN {Err(prefix, "email", "value is not a valid email address")}
          ELSE {})
    \cup UNION {ExperienceErrors(Get(d, "experience", <<>>)[i], Item(prefix, "experience", i)) :
                   i \in 1..Len(Get(d, "experience", <<>>))}
    \cup UNION {EducationErrors(Get(d, "education", <<>>)[i], Item(prefix, "education", i)) :
                   i \in 1..Len(Get(d, "education", <<>>))}

UserProfileDump(d) ==
    [name |-> d.name, email |-> d.email,
     phone |-> Get(d, "phone", None),
     location |-> Get(d, "location", None),
     linkedin |-> Get(d, "linkedin", None),
     skills |-> Get(d, "skills", <<>>),
     experience |-> [i \in 1..Len(Get(d, "experience", <<>>)) |-> ExperienceDump(d.experience[i])],
     education |-> [i \in 1..Len(Get(d, "education", <<>>)) |-> EducationDump(d.education[i])],
     certifications |-> Get(d, "certifications", <<>>),
     summary |-> Get(d, "summary", None)]

JobSearchParamsErrors(d, prefix) ==
    IF "results_wanted" \notin DOMAIN d THEN {}
    ELSE IF d.results_wanted < MinResults
    THEN {Err(prefix, "results_wanted", "Input should be greater than or equal to 1")}
    ELSE IF d.results_wanted > MaxResults
    THEN {Err(prefix, "results_wanted", "Input should be less than or equal to 100")}
    ELSE {}

JobSearchParamsDump(d) ==
    [search_term |-> Get(d, "search_term", "Software Developer"),
     location |-> Get(d, "location", "Remote"),
     results_wanted |-> Get(d, "results_wanted", DefaultResults),
     fine_tune_search_string |-> Get(d, "fine_tune_search_string", None)]

\* both fields of JobSearchConfig are required; all errors are collected
JobSearchConfigErrors(d) ==
    Missing(d, {"user_profile", "job_search_params"}, <<>>)
    \cup (IF "user_profile" \in DOMAIN d
          THEN UserProfileErrors(d.user_profile, <<"user_profile">>) ELSE {})
    \cup (IF "job_search_params" \in DOMAIN d
          THEN JobSearchParamsErrors(d.job_search_params, <<"job_search_params">>) ELSE {})

\* ------------------------------------------------------------------------
\* tools/jobspy_tool.py
\* A formatted str is kept as its template (head), the value formatted into
\* it (arg) and, for the digest, the per-job entries.
\* ------------------------------------------------------------------------
DescLimit == 500

NA == "N/A"
NAChars == <<"N", "/", "A">>
Ellipsis == <<".", ".", ".">>

\* the two ways a call ends
Return(v) == [raised |-> FALSE, value |-> v]
Raise(msg) == [raised |-> TRUE, msg |-> msg]

Text(head, arg, jobs) == [head |-> head, arg |-> arg, jobs |-> jobs]

NoJobsFound == Text("No jobs found matching the search criteria.", "", <<>>)

\* the "description" entry with the test len(...) >= 500
JobDescription_cuts_at_limit(job) ==
    IF Len(Get(job, "description", <<>>)) >= DescLimit
    THEN SubSeq(Get(job, "description", NAChars), 1, DescLimit) \o Ellipsis
    ELSE Get(job, "description", NAChars)

\* the "description" entry of job_info                 jobspy_tool.py:63-65
JobDescription(job) ==
    IF Len(Get(job, "description", <<>>)) > DescLimit
    THEN SubSeq(Get(job, "description", NAChars), 1, DescLimit) \o Ellipsis
    ELSE Get(job, "description", NAChars)

JobInfo(job) ==
    [title |-> Get(job, "title", NA),
     company |-> Get(job, "company", NA),
     location |-> Get(job, "location", NA),
     job_url |-> Get(job, "job_url", NA),
     description |-> JobDescription(job),
     salary_min |-> Get(job, "min_amount", NA),
     salary_max |-> Get(job, "max_amount", NA),
     date_posted |-> Get(job, "date_posted", NA),
     site |-> Get(job, "site", NA)]

\* JobSpyTool._run with scrape_jobs(...) called outside the try
JobSpyTool_run_unguarded(scrape) ==
    IF scrape.raised
    THEN Raise(scrape.msg)
    ELSE IF scrape.value = <<>>
    THEN Return(NoJobsFound)
    ELSE Return(Text("Found {} job listings:", ToString(Len(scrape.value)),
                     [i \in 1..Len(scrape.value) |-> JobInfo(scrape.value[i])]))

\* JobSpyTool._run without the jobs_df.empty test
JobSpyTool_run_no_empty_test(scrape) ==
    IF scrape.raised
    THEN Return(Text("Error searching for jobs: ", scrape.msg, <<>>))
    ELSE Return(Text("Found {} job listings:", ToString(Len(scrape.value)),
                     [i \in 1..Len(scrape.value) |-> JobInfo(scrape.value[i])]))

\* JobSpyTool._run; scrape is what scrape_jobs(...) does on this call: it
\* raises (raised, msg) or returns a frame of job rows (value)
JobSpyTool_run(scrape) ==
    IF scrape.raised
    THEN Return(Text("Error searching for jobs: ", scrape.msg, <<>>))
    ELSE IF scrape.value = <<>>
    THEN Return(NoJobsFound)
    ELSE Return(Text("Found {} job listings:", ToString(Len(scrape.value)),
                     [i \in 1..Len(scrape.value) |-> JobInfo(scrape.value[i])]))

\* ------------------------------------------------------------------------
\* tools/resume_generator_tool.py
\* ------------------------------------------------------------------------
DefaultFilename == "personalized_resume.docx"

SummaryPlaceholder ==
    "Experienced professional with expertise in relevant technologies and strong problem-solving skills."

\* an element of a list that is a str where the code expects a dict
NotADict(s) == [notadict |-> s]
IsDict(x) == "notadict" \notin DOMAIN x

\* contact_text                                resume_generator_tool.py:49-57
ContactText(u) ==
    (IF TruthyStr(Get(u, "email", None)) THEN <<u.email>> ELSE <<>>)
    \o (IF TruthyStr(Get(u, "phone", None)) THEN <<u.phone>> ELSE <<>>)
    \o (IF TruthyStr(Get(u, "location", None)) THEN <<u.location>> ELSE <<>>)
    \o (IF TruthyStr(Get(u, "linkedin", None)) THEN <<"LinkedIn: ", u.linkedin>> ELSE <<>>)

ExperienceBlock(exp) ==
    [title |-> Get(exp, "title", "Position Title"),
     company |-> Get(exp, "company", "Company Name"),
     duration |-> Get(exp, "duration", "Duration"),
     bullet |-> IF TruthyStr(Get(exp, "description", None)) THEN exp.description ELSE None]

EducationBlock(edu) ==
    [degree |-> Get(edu, "degree", "Degree"),
     school |-> Get(edu, "school", "School Name"),
     year |-> IF TruthyStr(Get(edu, "year", None)) THEN edu.year ELSE None]

BuildError == "'str' object has no attribute 'get'"
SaveError == "Permission denied"

\* exp.get / edu.get on an element that is not a dict raises AttributeError
BuildRaises(u) ==
    \/ \E i \in 1..Len(Get(u, "experience", <<>>)) : ~IsDict(u.experience[i])
    \/ \E i \in 1..Len(Get(u, "education", <<>>)) : ~IsDict(u.education[i])

\* the document that doc.add_heading / doc.add_paragraph build
Document(u) ==
    [header |-> Get(u, "name", "Your Name"),
     contact |-> ContactText(u),
     summary |-> Get(u, "summary", SummaryPlaceholder),
     skills |-> Get(u, "skills", <<>>),
     experience |-> [i \in 1..Len(Get(u, "experience", <<>>)) |-> ExperienceBlock(u.experience[i])],
     education |-> [i \in 1..Len(Get(u, "education", <<>>)) |-> EducationBlock(u.education[i])],
     certifications |-> Get(u, "certifications", <<>>)]

\* ResumeGeneratorTool._run with doc.save(output_path) after the try
ResumeGeneratorTool_run_save_unguarded(user_info, job_requirements, output_filename, save_fails) ==
    IF BuildRaises(user_info)
    THEN Return(Text("Error generating resume: ", BuildError, <<>>))
    ELSE IF save_fails
    THEN Raise(SaveError)
    ELSE Return(Text("Resume successfully generated and saved as '{}' in the current directory. The resume has been tailored based on the job requirements analysis.",
                     output_filename, <<>>))

\* ResumeGeneratorTool._run; save_fails is what doc.save(output_path) does on
\* this call
ResumeGeneratorTool_run(user_info, job_requirements, output_filename, save_fails) ==
    IF BuildRaises(user_info)
    THEN Return(Text("Error generating resume: ", BuildError, <<>>))
    ELSE IF save_fails
    THEN Return(Text("Error generating resume: ", SaveError, <<>>))
    ELSE Return(Text("Resume successfully generated and saved as '{}' in the current directory. The resume has been tailored based on the job requirements analysis.",
                     output_filename, <<>>))

\* the file doc.save wrote, if the call got that far
ResumeGeneratorTool_saved(user_info, output_filename, save_fails) ==
    IF BuildRaises(user_info) \/ save_fails THEN {}
    ELSE {[name |-> output_filename, doc |-> Document(user_info)]}

\* ------------------------------------------------------------------------
\* Inputs the commands are run with
\* ------------------------------------------------------------------------
Chars_Go == <<"G", "o">>
Chars_Py == <<"P", "y">>

Exp1 == [title |-> "Developer", company |-> "Acme", duration |-> "2020-2024",
         description |-> "Built services"]
\* no title
ExpNoTitle == [company |-> "Acme", duration |-> "2020-2024", description |-> "Built services"]
Edu1 == [degree |-> "BSc", school |-> "MIT", year |-> "2019"]

ProfAnn == [name |-> "Ann", email |-> "ann@x.org"]
ProfFull ==
    [name |-> "Ann", email |-> "ann@x.org", phone |-> "555-0100", location |-> "NYC",
     linkedin |-> "in/ann", summary |-> "Engineer", skills |-> <<Chars_Go>>,
     certifications |-> <<Chars_Go>>, experience |-> <<Exp1>>, education |-> <<Edu1>>]
ProfBadEmail == [name |-> "Ann", email |-> "ann-at-x"]
\* three violations: name missing, email invalid, experience.0.title missing
ProfThreeErrors == [email |-> "ann-at-x", experience |-> <<ExpNoTitle>>]
ProfEmptyName == [name |-> "", email |-> "ann@x.org"]

RawProfiles == {ProfAnn, ProfFull, ProfBadEmail, ProfThreeErrors, ProfEmptyName}

ParamsFull ==
    [search_term |-> "QA Engineer", location |-> "Berlin", results_wanted |-> 100,
     fine_tune_search_string |-> "remote-first"]

RawParams ==
    {EmptyDict, ParamsFull} \cup {[results_wanted |-> n] : n \in {0, 5, 101}}

\* documents: a bare profile, a config without and with job_search_params
Documents ==
    RawProfiles
    \cup {[user_profile |-> p] : p \in RawProfiles}
    \cup {[user_profile |-> p, job_search_params |-> q] : p \in RawProfiles, q \in RawParams}
    \cup {[job_search_params |-> ParamsFull]}

JsonTexts == {Malformed} \cup {Json(d) : d \in Documents}

\* the values an individual option of job_search is given
FlagValues ==
    [name |-> {"", "Bob"},
     email |-> {"bob@y.org", "bob-at-y"},
     phone |-> {"555-0199"},
     location |-> {"", "LA"},
     linkedin |-> {"in/bob"},
     summary |-> {"Tester"},
     skills |-> {<<"P", "y", ",", " ", "G", "o", " ">>},
     certifications |-> {<<" ", "G", "o">>},
     experience |-> {Malformed, Json(<<Exp1, Exp1>>), Json(<<ExpNoTitle>>)},
     education |-> {Malformed, Json(<<Edu1, Edu1>>)},
     search_term |-> {"SRE"},
     search_location |-> {"Oslo"},
     results_wanted |-> {-1, 0, 1, 10, 100, 101}]

FlagKeys == DOMAIN FlagValues

RECURSIVE FlagsOver(_)
FlagsOver(K) ==
    IF K = {} THEN {EmptyDict}
    ELSE LET k == CHOOSE x \in K : TRUE
         IN  {Put(f, k, v) : f \in FlagsOver(K \ {k}), v \in FlagValues[k]}

\* a command line: the individual options given, each with its value, and
\* --user-profile-json if given
CommandLines ==
    LET individual ==
            UNION {FlagsOver(K) : K \in {K \in SUBSET FlagKeys : Cardinality(K) <= MaxFlags}}
    IN  individual \cup {Put(f, "user_profile_json", t) : f \in individual, t \in JsonTexts}

\* ------------------------------------------------------------------------
\* cli.py: job_search
\* flags is the command line: click passes None for an option that was not
\* given (10 for --results-wanted).
\* ------------------------------------------------------------------------
Flag(flags, k) == Get(flags, k, None)
Given(flags, k) == k \in DOMAIN flags

results_wanted_flag(flags) == Get(flags, "results_wanted", DefaultResults)

\* cli.py:90-94 and 98-102
ProfileOfDocument(config_data) ==
    IF "user_profile" \in DOMAIN config_data THEN config_data.user_profile ELSE config_data

ParamsOfDocument(config_data) ==
    IF "user_profile" \in DOMAIN config_data
    THEN Get(config_data, "job_search_params", EmptyDict)
    ELSE EmptyDict

\* if x: data[key] = x                                     cli.py:108-119
OverrideStr(data, key, x) == IF TruthyStr(x) THEN Put(data, key, x) ELSE data

\* if x: data[key] = [e.strip() for e in x.split(",")]     cli.py:121-127
OverrideList(data, key, flags, k) ==
    IF Given(flags, k) /\ flags[k] # <<>> THEN Put(data, key, SplitList(flags[k])) ELSE data

\* if x: data[key] = json.loads(x)                         cli.py:129-141
OverrideJson(data, key, flags, k) ==
    IF Given(flags, k) THEN Put(data, key, json_loads(flags[k])) ELSE data

\* if results_wanted: data["results_wanted"] = results_wanted   cli.py:148
OverrideInt(data, key, n) == IF TruthyInt(n) THEN Put(data, key, n) ELSE data

\* user_profile_data when the UserProfile is constructed    cli.py:107-141
MergeProfile(base, flags) ==
    LET d1 == OverrideStr(base, "name", Flag(flags, "name"))
        d2 == OverrideStr(d1, "email", Flag(flags, "email"))
        d3 == OverrideStr(d2, "phone", Flag(flags, "phone"))
        d4 == OverrideStr(d3, "location", Flag(flags, "location"))
        d5 == OverrideStr(d4, "linkedin", Flag(flags, "linkedin"))
        d6 == OverrideStr(d5, "summary", Flag(flags, "summary"))
        d7 == OverrideList(d6, "skills", flags, "skills")
        d8 == OverrideList(d7, "certifications", flags, "certifications")
        d9 == OverrideJson(d8, "experience", flags, "experience")
    IN  OverrideJson(d9, "education", flags, "education")

\* job_search_params_data when the JobSearchParams is constructed  cli.py:143-149
MergeParams(base, flags) ==
    LET d1 == OverrideStr(base, "search_term", Flag(flags, "search_term"))
        d2 == OverrideStr(d1, "location", Flag(flags, "search_location"))
    IN  OverrideInt(d2, "results_wanted", results_wanted_flag(flags))

\* the first json.loads that raises JSONDecodeError, in the order of the code
JsonFailure(flags) ==
    IF Given(flags, "user_profile_json") /\ ~JsonDecodes(flags.user_profile_json)
    THEN "Error parsing user profile JSON: "
    ELSE IF Given(flags, "experience") /\ ~JsonDecodes(flags.experience)
    THEN "Error parsing experience JSON: "
    ELSE IF Given(flags, "education") /\ ~JsonDecodes(flags.education)
    THEN "Error parsing education JSON: "
    ELSE ""

\* UserProfile(...) is constructed first and raises before JobSearchParams(...)
\* is constructed                                            cli.py:157-158
JobSearchErrors(profile, params) ==
    IF UserProfileErrors(profile, <<>>) # {}
    THEN UserProfileErrors(profile, <<>>)
    ELSE JobSearchParamsErrors(params, <<>>)

\* click.echo(f"  - {error['loc'][0]}: {error['msg']}")      cli.py:183-184
JobSearchReportLine(error) == [path |-> <<Head(error.loc)>>, msg |-> error.msg]

\* click.echo(f"  - {'.'.join(str(x) for x in error['loc'])}: ...")  cli.py:232-233
FromFileReportLine(error) == [path |-> error.loc, msg |-> error.msg]

\* ------------------------------------------------------------------------
\* flows/jod_search.py: JobSearchState and the built-in defaults
\* ------------------------------------------------------------------------
JobSearchState ==
    [user_profile |-> EmptyDict, job_search_params |-> EmptyDict,
     job_listings |-> "", skills_analysis |-> "", resume_path |-> ""]

DefaultProfile ==
    [name |-> "John Doe", email |-> "john.doe@email.com",
     skills |-> <<Chars_Py>>,
     experience |-> <<[title |-> "Data Scientist", company |-> "Tech Corp",
                       duration |-> "2022-2024",
                       description |-> "Developed ML models and analyzed large datasets"]>>,
     education |-> <<[degree |-> "Master of Science in Computer Science",
                      school |-> "University of Technology", year |-> "2022"]>>,
     summary |-> "Experienced data scientist with expertise in machine learning and data analysis"]

DefaultParams ==
    [search_term |-> "Data Scientist", location |-> "Remote", results_wanted |-> 10]

\* the methods of JobSearchFlow in the order of their @start / @listen chain
Steps ==
    <<"collect_user_info", "search_and_analyze_jobs",
      "generate_personalized_resume", "finalize_results">>

\* the tasks with generate_resume defined second
Tasks_resume_second == <<"search_jobs", "generate_resume", "analyze_skills_gap", "filter_jobs">>

\* the tasks of JobSearchCrew in the order of their @task definitions
Tasks == <<"search_jobs", "analyze_skills_gap", "filter_jobs", "generate_resume">>

\* the context=[...] of each task                 job_search_crew.py:63-92
Context(name) ==
    IF name = "search_jobs" THEN {}
    ELSE IF name \in {"analyze_skills_gap", "filter_jobs"} THEN {"search_jobs"}
    ELSE {"filter_jobs", "analyze_skills_gap"}

\* ------------------------------------------------------------------------
\* State
\* ------------------------------------------------------------------------
VARIABLES
    args,          \* the command that was run and its arguments
    outcome,       \* how the command ended, "running" while the flow runs
    echo,          \* what the command printed: a headline and report lines
    validated,     \* the mappings handed to the pydantic constructors
    state,         \* flow.state, a JobSearchState
    pc,            \* the flow method to run next
    executed,      \* the flow methods that have returned, in order
    task,          \* index in Tasks of the crew task in progress
    calls,         \* tool calls made in the task in progress
    tool_result,   \* what the last tool call of the task in progress returned
    scraped,       \* what scrape_jobs did when last called: "raised", "empty", "found"
    rows,          \* the job rows scrape_jobs returned to the tool call of the
                   \* task in progress
    generated,     \* how the last ResumeGeneratorTool call went: "saved",
                   \* "build_raised", "save_raised"
    exception,     \* message of the exception that left flow.kickoff(), if any
    files,         \* documents ResumeGeneratorTool saved in the working directory
    inputs,        \* the inputs the crew was kicked off with (none or one)
    completed,     \* the crew tasks that have completed, in order
    result,        \* result.raw of the crew's kickoff
    summary        \* the FLOW SUMMARY that finalize_results prints

vars ==
    <<args, outcome, echo, validated, state, pc, executed, task, calls,
      tool_result, scraped, rows, generated, exception, files, inputs, completed,
      result, summary>>

NoArgs == [cmd |-> "", flags |-> EmptyDict]
NoEcho == [head |-> "", lines |-> {}]
NoText == Text("", "", <<>>)
NoSummary == [user |-> "", search_term |-> "", location |-> "", resume |-> ""]
NothingValidated == [user_profile |-> EmptyDict, job_search_params |-> EmptyDict]

Init ==
    /\ args = NoArgs
    /\ outcome = "idle"
    /\ echo = NoEcho
    /\ validated = NothingValidated
    /\ state = JobSearchState
    /\ pc = ""
    /\ executed = <<>>
    /\ task = 0
    /\ calls = 0
    /\ tool_result = NoText
    /\ scraped = ""
    /\ rows = <<>>
    /\ generated = ""
    /\ exception = ""
    /\ files = {}
    /\ inputs = <<>>
    /\ completed = <<>>
    /\ result = ""
    /\ summary = NoSummary

flow_vars ==
    <<executed, task, calls, tool_result, scraped, rows, generated, exception,
      files, inputs, completed, result, summary>>

\* the command echoes the error and falls through to the flow (no return)
Stop_no_return(how, head, lines) ==
    /\ outcome' = how
    /\ echo' = [head |-> head, lines |-> lines]
    /\ state' = state
    /\ pc' = "collect_user_info"

\* the command returns without constructing a flow
Stop(how, head, lines) ==
    /\ outcome' = how
    /\ echo' = [head |-> head, lines |-> lines]
    /\ UNCHANGED <<state, pc>>

\* flow.state is set and flow.kickoff() is called
Launch(user_profile, job_search_params, head) ==
    /\ outcome' = "running"
    /\ echo' = [head |-> head, lines |-> {}]
    /\ state' = [JobSearchState EXCEPT !.user_profile = user_profile,
                                       !.job_search_params = job_search_params]
    /\ pc' = Steps[1]

\* cli.py:60-185
job_search(flags) ==
    /\ outcome = "idle"
    /\ args' = [cmd |-> "job_search", flags |-> flags]
    /\ UNCHANGED flow_vars
    /\ IF JsonFailure(flags) # ""
       THEN /\ Stop("parse_error", JsonFailure(flags), {})
            /\ UNCHANGED validated
       ELSE LET config_data == IF Given(flags, "user_profile_json")
                               THEN json_loads(flags.user_profile_json)
                               ELSE EmptyDict
                user_profile_data == MergeProfile(ProfileOfDocument(config_data), flags)
                job_search_params_data == MergeParams(ParamsOfDocument(config_data), flags)
                errors == JobSearchErrors(user_profile_data, job_search_params_data)
            IN  IF ~TruthyDict(user_profile_data)
                THEN /\ Stop("profile_required",
                             "Error: User profile is required. Provide at least name and email.", {})
                     /\ UNCHANGED validated
                ELSE /\ validated' = [user_profile |-> user_profile_data,
                                      job_search_params |-> job_search_params_data]
                     /\ IF errors # {}
                        THEN Stop("validation_error",
                                  "Validation error in user profile or job search parameters:",
                                  {JobSearchReportLine(e) : e \in errors})
                        ELSE Launch(UserProfileDump(user_profile_data),
                                    JobSearchParamsDump(job_search_params_data),
                                    "Starting JobSearchFlow")

\* flows/jod_search.py:114-132; None is passed as the empty dict (both are
\* false in "if user_profile:")
run_job_search_flow_state(user_profile, job_search_params) ==
    [JobSearchState EXCEPT
        !.user_profile = IF TruthyDict(user_profile) THEN user_profile ELSE @,
        !.job_search_params = IF TruthyDict(job_search_params) THEN job_search_params ELSE @]

\* cli.py:188-237
job_search_from_file(text) ==
    /\ outcome = "idle"
    /\ args' = [cmd |-> "job_search_from_file", flags |-> [profile_file |-> text]]
    /\ UNCHANGED flow_vars
    /\ IF ~JsonDecodes(text)
       THEN /\ Stop("parse_error", "Error parsing JSON file: ", {})
            /\ UNCHANGED validated
       ELSE LET config_data == json_loads(text)
                errors == JobSearchConfigErrors(config_data)
            IN  /\ validated' = [user_profile |-> Get(config_data, "user_profile", EmptyDict),
                                 job_search_params |-> Get(config_data, "job_search_params", EmptyDict)]
                /\ IF errors # {}
                   THEN Stop("validation_error", "Validation error in profile file:",
                             {FromFileReportLine(e) : e \in errors})
                   ELSE LET s == run_job_search_flow_state(
                                     UserProfileDump(config_data.user_profile),
                                     JobSearchParamsDump(config_data.job_search_params))
                        IN  Launch(s.user_profile, s.job_search_params,
                                   "Starting Job Search Flow")

\* the arguments run_job_search_flow is called with from Python (main.py:55
\* calls it with none)
FlowProfiles == {EmptyDict, ProfAnn, UserProfileDump(ProfFull)}
FlowParams == {EmptyDict, [results_wanted |-> 15], ParamsFull}

run_job_search_flow(user_profile, job_search_params) ==
    /\ outcome = "idle"
    /\ args' = [cmd |-> "run_job_search_flow",
                flags |-> [user_profile |-> user_profile,
                           job_search_params |-> job_search_params]]
    /\ UNCHANGED flow_vars
    /\ UNCHANGED validated
    /\ LET s == run_job_search_flow_state(user_profile, job_search_params)
       IN  Launch(s.user_profile, s.job_search_params, "")

\* ------------------------------------------------------------------------
\* JobSearchFlow
\* ------------------------------------------------------------------------
\* an exception that the flow swallows, going on to the next step
Abort_continues(msg) ==
    /\ pc' = "generate_personalized_resume"
    /\ exception' = msg
    /\ UNCHANGED <<outcome, echo>>

\* an exception leaves flow.kickoff(): job_search_from_file catches it
\* (cli.py:236), the other callers do not
Abort(msg) ==
    /\ pc' = "aborted"
    /\ exception' = msg
    /\ outcome' = IF args.cmd = "job_search_from_file" THEN "run_error" ELSE "crashed"
    /\ echo' = IF args.cmd = "job_search_from_file"
               THEN [head |-> "Error running job search: ", lines |-> {}]
               ELSE echo

\* collect_user_info with both defaults under the test of the profile
collect_user_info_state_coupled(s) ==
    [s EXCEPT
        !.user_profile = IF ~TruthyDict(s.user_profile) THEN DefaultProfile ELSE @,
        !.job_search_params = IF ~TruthyDict(s.user_profile) THEN DefaultParams ELSE @]

\* flows/jod_search.py:24-61
collect_user_info_state(s) ==
    [s EXCEPT
        !.user_profile = IF ~TruthyDict(s.user_profile) THEN DefaultProfile ELSE @,
        !.job_search_params = IF ~TruthyDict(s.job_search_params) THEN DefaultParams ELSE @]

\* generate_personalized_resume listening to collect_user_info: the search
\* step is passed over
collect_user_info_skips ==
    /\ pc = "collect_user_info"
    /\ state' = collect_user_info_state(state)
    /\ executed' = Append(executed, "collect_user_info")
    /\ pc' = "generate_personalized_resume"
    /\ UNCHANGED <<args, outcome, echo, validated, task, calls, tool_result,
                   scraped, rows, generated, exception, files, inputs, completed, result, summary>>

collect_user_info ==
    /\ pc = "collect_user_info"
    /\ state' = collect_user_info_state(state)
    /\ executed' = Append(executed, "collect_user_info")
    /\ pc' = "search_and_analyze_jobs"
    /\ UNCHANGED <<args, outcome, echo, validated, task, calls, tool_result,
                   scraped, rows, generated, exception, files, inputs, completed, result, summary>>

\* crew_inputs                                  flows/jod_search.py:69-80
crew_inputs(s) ==
    [user_profile |-> s.user_profile,
     job_search_params |-> s.job_search_params,
     search_term |-> Get(s.job_search_params, "search_term", "Software Developer"),
     location |-> Get(s.job_search_params, "location", ""),
     results_wanted |-> Get(s.job_search_params, "results_wanted", 10),
     fine_tune_search_string |-> Get(s.job_search_params, "fine_tune_search_string", "")]

\* search_and_analyze_jobs up to JobSearchCrew().crew().kickoff(inputs=...)
search_and_analyze_jobs ==
    /\ pc = "search_and_analyze_jobs"
    /\ pc' = "kickoff"
    /\ inputs' = <<crew_inputs(state)>>
    /\ task' = 1
    /\ calls' = 0
    /\ UNCHANGED <<args, outcome, echo, validated, state, executed, tool_result,
                   scraped, rows, generated, exception, files, completed, result, summary>>

\* ------------------------------------------------------------------------
\* JobSearchCrew: Process.sequential over Tasks; the agent of search_jobs has
\* the JobSpyTool and the agent of generate_resume the ResumeGeneratorTool
\* (crews/job_search_crew/job_search_crew.py:29-104).  What the collaborators
\* (scraper, language model, file system) do is chosen from these sets.
\* ------------------------------------------------------------------------
Repeat(c, n) == [i \in 1..n |-> c]

Job(description) ==
    [title |-> "Developer", company |-> "Acme", location |-> "Remote",
     job_url |-> "https://jobs/1", description |-> description, site |-> "indeed"]

\* a row without a description
JobBare == [title |-> "Tester", company |-> "Initech"]

ScrapeOutcomes ==
    {Raise("connection refused"), Return(<<>>), Return(<<JobBare>>)}
    \cup {Return(<<Job(Repeat("x", n))>>) : n \in {DescLimit - 1, DescLimit, DescLimit + 1}}

ScrapeKind(scrape) ==
    IF scrape.raised THEN "raised" ELSE IF scrape.value = <<>> THEN "empty" ELSE "found"

\* the user_info the resume_writer agent passes to its tool
UserInfos(profile) ==
    {profile, [name |-> "Ann", experience |-> <<NotADict("Developer at Acme")>>]}

Filenames == {DefaultFilename, "resume_v2.docx"}

\* the exception of a failed language model call
ModelError == "language model call failed"

GenerateKind(user_info, save_fails) ==
    IF BuildRaises(user_info) THEN "build_raised"
    ELSE IF save_fails THEN "save_raised" ELSE "saved"

\* the text a task's agent answers with
RawTexts == {"", "Skills gap analysis"}

InCrew(name) == pc = "kickoff" /\ task \in 1..Len(Tasks) /\ Tasks[task] = name

\* the job_searcher agent calls JobSpyTool
UseJobSpyTool ==
    /\ InCrew("search_jobs")
    /\ calls < MaxToolCalls
    /\ \E scrape \in ScrapeOutcomes :
         LET r == JobSpyTool_run(scrape)
         IN  /\ scraped' = ScrapeKind(scrape)
             /\ rows' = IF scrape.raised THEN <<>> ELSE scrape.value
             /\ IF r.raised
                THEN /\ Abort(r.msg)
                     /\ UNCHANGED <<calls, tool_result>>
                ELSE /\ tool_result' = r.value
                     /\ calls' = calls + 1
                     /\ UNCHANGED <<pc, outcome, echo, exception>>
    /\ UNCHANGED <<args, validated, state, executed, task, generated, files, inputs,
                   completed, result, summary>>

\* the resume_writer agent calls ResumeGeneratorTool
UseResumeGeneratorTool ==
    /\ InCrew("generate_resume")
    /\ calls < MaxToolCalls
    /\ \E user_info \in UserInfos(inputs[1].user_profile), output_filename \in Filenames,
          save_fails \in BOOLEAN :
         LET r == ResumeGeneratorTool_run(user_info, "", output_filename, save_fails)
         IN  /\ generated' = GenerateKind(user_info, save_fails)
             /\ files' = files \cup ResumeGeneratorTool_saved(user_info, output_filename, save_fails)
             /\ IF r.raised
                THEN /\ Abort(r.msg)
                     /\ UNCHANGED <<calls, tool_result>>
                ELSE /\ tool_result' = r.value
                     /\ calls' = calls + 1
                     /\ UNCHANGED <<pc, outcome, echo, exception>>
    /\ UNCHANGED <<args, validated, state, executed, task, scraped, rows, inputs,
                   completed, result, summary>>

\* the task in progress completes and the next one starts; the output of the
\* last task is the crew's result
TaskCompletes ==
    /\ pc = "kickoff"
    /\ task \in 1..Len(Tasks)
    /\ completed' = Append(completed, Tasks[task])
    /\ task' = task + 1
    /\ calls' = 0
    /\ tool_result' = NoText
    /\ rows' = <<>>
    /\ IF task = Len(Tasks) THEN result' \in RawTexts ELSE result' = result
    /\ UNCHANGED <<args, outcome, echo, validated, state, pc, executed, scraped,
                   generated, exception, files, inputs, summary>>

\* the language model call of the task in progress raises
TaskRaises ==
    /\ pc = "kickoff"
    /\ task \in 1..Len(Tasks)
    /\ Abort(ModelError)
    /\ UNCHANGED <<args, validated, state, executed, task, calls, tool_result,
                   scraped, rows, generated, files, inputs, completed, result, summary>>

\* search_and_analyze_jobs also recording the resume path
search_and_analyze_jobs_return_writes_path ==
    /\ pc = "kickoff"
    /\ task = Len(Tasks) + 1
    /\ state' = [state EXCEPT !.skills_analysis = result, !.resume_path = DefaultFilename]
    /\ executed' = Append(executed, "search_and_analyze_jobs")
    /\ pc' = "generate_personalized_resume"
    /\ task' = 0
    /\ UNCHANGED <<args, outcome, echo, validated, calls, tool_result, scraped, rows,
                   generated, exception, files, inputs, completed, result, summary>>

\* kickoff returning only when the crew's text is not empty
search_and_analyze_jobs_return_needs_text ==
    /\ pc = "kickoff"
    /\ task = Len(Tasks) + 1
    /\ result # ""
    /\ state' = [state EXCEPT !.skills_analysis = result]
    /\ executed' = Append(executed, "search_and_analyze_jobs")
    /\ pc' = "generate_personalized_resume"
    /\ task' = 0
    /\ UNCHANGED <<args, outcome, echo, validated, calls, tool_result, scraped, rows,
                   generated, exception, files, inputs, completed, result, summary>>

\* kickoff returns: self.state.skills_analysis = result.raw   jod_search.py:85-86
search_and_analyze_jobs_return ==
    /\ pc = "kickoff"
    /\ task = Len(Tasks) + 1
    /\ state' = [state EXCEPT !.skills_analysis = result]
    /\ executed' = Append(executed, "search_and_analyze_jobs")
    /\ pc' = "generate_personalized_resume"
    /\ task' = 0
    /\ UNCHANGED <<args, outcome, echo, validated, calls, tool_result, scraped, rows,
                   generated, exception, files, inputs, completed, result, summary>>

\* generate_personalized_resume without the assignment of resume_path
generate_personalized_resume_no_path ==
    /\ pc = "generate_personalized_resume"
    /\ state' = state
    /\ executed' = Append(executed, "generate_personalized_resume")
    /\ pc' = "finalize_results"
    /\ UNCHANGED <<args, outcome, echo, validated, task, calls, tool_result,
                   scraped, rows, generated, exception, files, inputs, completed, result, summary>>

\* generate_personalized_resume recording the name of the file the tool saved
generate_personalized_resume_saved_name ==
    /\ pc = "generate_personalized_resume"
    /\ state' = [state EXCEPT !.resume_path =
                    IF files = {} THEN DefaultFilename ELSE (CHOOSE f \in files : TRUE).name]
    /\ executed' = Append(executed, "generate_personalized_resume")
    /\ pc' = "finalize_results"
    /\ UNCHANGED <<args, outcome, echo, validated, task, calls, tool_result,
                   scraped, rows, generated, exception, files, inputs, completed, result, summary>>

\* flows/jod_search.py:88-96
generate_personalized_resume ==
    /\ pc = "generate_personalized_resume"
    /\ state' = [state EXCEPT !.resume_path = DefaultFilename]
    /\ executed' = Append(executed, "generate_personalized_resume")
    /\ pc' = "finalize_results"
    /\ UNCHANGED <<args, outcome, echo, validated, task, calls, tool_result,
                   scraped, rows, generated, exception, files, inputs, completed, result, summary>>

\* flows/jod_search.py:98-111
finalize_results ==
    /\ pc = "finalize_results"
    /\ summary' = [user |-> Get(state.user_profile, "name", NA),
                   search_term |-> Get(state.job_search_params, "search_term", NA),
                   location |-> Get(state.job_search_params, "location", NA),
                   resume |-> state.resume_path]
    /\ executed' = Append(executed, "finalize_results")
    /\ pc' = "done"
    /\ UNCHANGED <<args, outcome, echo, validated, state, task, calls, tool_result,
                   scraped, rows, generated, exception, files, inputs, completed, result>>

\* flow.kickoff() returns to the command, which reports success
command_returns ==
    /\ pc = "done"
    /\ outcome = "running"
    /\ outcome' = "completed"
    /\ echo' = [echo EXCEPT !.head = "Job Search Flow completed successfully"]
    /\ UNCHANGED <<args, validated, state, pc, executed, task, calls, tool_result,
                   scraped, rows, generated, exception, files, inputs, completed, result, summary>>

\* the exit status of the process once the command has ended: a click
\* command that returns exits with 0 (no handler calls sys.exit, cli.py:230-237
\* only echo), an exception that leaves the command exits with 1
Ended == outcome \notin {"idle", "running"}
exit_code == IF outcome = "crashed" THEN 1 ELSE 0

Next ==
    \/ outcome = "idle" /\ \E flags \in CommandLines : job_search(flags)
    \/ outcome = "idle" /\ \E text \in JsonTexts : job_search_from_file(text)
    \/ outcome = "idle" /\ \E p \in FlowProfiles, q \in FlowParams : run_job_search_flow(p, q)
    \/ collect_user_info
    \/ search_and_analyze_jobs
    \/ UseJobSpyTool
    \/ UseResumeGeneratorTool
    \/ TaskCompletes
    \/ TaskRaises
    \/ search_and_analyze_jobs_return
    \/ generate_personalized_resume
    \/ finalize_results
    \/ command_returns

Spec == Init /\ [][Next]_vars

\* The runs in which every call of a collaborator returns: no language model
\* call raises.  kickoff() runs the steps one after the other in one thread
\* (the @listen chain) and the crew runs its tasks sequentially, so a step or
\* task that can run is run; an agent may or may not call its tool.  What a
\* run does after its launch depends on the profile and the parameters it was
\* launched with, not on the flags they were assembled from: job_search is
\* given a JSON document and no other flag here.
DocumentOnly == {flags \in CommandLines : DOMAIN flags = {"user_profile_json"}}

LiveNext ==
    \/ outcome = "idle" /\ \E flags \in DocumentOnly : job_search(flags)
    \/ outcome = "idle" /\ \E text \in JsonTexts : job_search_from_file(text)
    \/ outcome = "idle" /\ \E p \in FlowProfiles, q \in FlowParams : run_job_search_flow(p, q)
    \/ collect_user_info
    \/ search_and_analyze_jobs
    \/ UseJobSpyTool
    \/ UseResumeGeneratorTool
    \/ TaskCompletes
    \/ search_and_analyze_jobs_return
    \/ generate_personalized_resume
    \/ finalize_results
    \/ command_returns

LiveSpec ==
    /\ Init
    /\ [][LiveNext]_vars
    /\ WF_vars(collect_user_info)
    /\ WF_vars(search_and_analyze_jobs)
    /\ WF_vars(TaskCompletes)
    /\ WF_vars(search_and_analyze_jobs_return)
    /\ WF_vars(generate_personalized_resume)
    /\ WF_vars(finalize_results)

\* ========================================================================
\* Properties
\* ========================================================================
IsPrefix(a, b) == Len(a) <= Len(b) /\ \A i \in 1..Len(a) : a[i] = b[i]

\* the state of the pipeline controller, "" when no flow is running
FlowState ==
    IF pc = "collect_user_info" THEN "Start"
    ELSE IF pc = "search_and_analyze_jobs" \/ InCrew("search_jobs") THEN "Searching"
    ELSE IF pc = "kickoff" THEN "Analyzing"
    ELSE IF pc = "generate_personalized_resume" THEN "Generating"
    ELSE IF pc \in {"finalize_results", "done"} THEN "Done"
    ELSE ""

FlowStates == <<"Start", "Searching", "Analyzing", "Generating", "Done">>
Rank(s) == CHOOSE i \in 1..Len(FlowStates) : FlowStates[i] = s

\* the step that is running or is to run next is step number StepNo
StepNo ==
    IF pc = "kickoff" THEN 2
    ELSE IF pc = "done" THEN Len(Steps) + 1
    ELSE CHOOSE i \in 1..Len(Steps) : Steps[i] = pc

\* C1: the steps of a run execute in the fixed order collect_user_info,
\* search_and_analyze_jobs, generate_personalized_resume, finalize_results:
\* the steps that have returned are a prefix of that order, the step running
\* is the one after them, a run that is done ran all four once, and the
\* controller state starts at Start and only stays or moves to the next state.
C1_StepsInOrder ==
    /\ IsPrefix(executed, Steps)
    /\ pc \notin {"", "aborted"} => Len(executed) = StepNo - 1

C1_FixedOrder ==
    /\ []C1_StepsInOrder
    /\ [][/\ FlowState = "" /\ FlowState' # "" => FlowState' = "Start" /\ pc = ""
          /\ FlowState # "" /\ FlowState' # "" =>
                Rank(FlowState') \in {Rank(FlowState), Rank(FlowState) + 1}
          /\ pc \in {"done", "aborted"} => pc' = pc /\ executed' = executed]_vars

C1_Witness == pc = "done" /\ executed = Steps /\ Len(completed) = Len(Tasks)

\* C2: a step writes only the fields of flow.state it owns: collect_user_info
\* only user_profile and job_search_params, search_and_analyze_jobs only
\* job_listings and skills_analysis, generate_personalized_resume only
\* resume_path, finalize_results none; user_profile and job_search_params do
\* not change once collect_user_info has returned.
C2_StepsWriteOwnFields ==
    [][/\ pc = "collect_user_info" =>
              /\ state'.job_listings = state.job_listings
              /\ state'.skills_analysis = state.skills_analysis
              /\ state'.resume_path = state.resume_path
       /\ pc \in {"search_and_analyze_jobs", "kickoff"} =>
              /\ state'.user_profile = state.user_profile
              /\ state'.job_search_params = state.job_search_params
              /\ state'.resume_path = state.resume_path
       /\ pc = "generate_personalized_resume" =>
              /\ state'.user_profile = state.user_profile
              /\ state'.job_search_params = state.job_search_params
              /\ state'.job_listings = state.job_listings
              /\ state'.skills_analysis = state.skills_analysis
       /\ pc \in {"finalize_results", "done", "aborted"} => state' = state]_vars

C2_Witness ==
    /\ pc = "done"
    /\ state.user_profile = DefaultProfile
    /\ state.job_search_params = DefaultParams
    /\ state.skills_analysis # ""
    /\ state.resume_path # ""

\* C3: collect_user_info replaces user_profile by the default profile exactly
\* when it is empty and job_search_params by the default params exactly when
\* it is empty, each independently of the other, keeps a non-empty value, and
\* leaves both non-empty.
C3_DefaultsPerField ==
    /\ [][pc = "collect_user_info" =>
            /\ state'.user_profile =
                  IF DOMAIN state.user_profile = {} THEN DefaultProfile ELSE state.user_profile
            /\ state'.job_search_params =
                  IF DOMAIN state.job_search_params = {} THEN DefaultParams
                  ELSE state.job_search_params]_vars
    /\ [](pc \notin {"", "collect_user_info"} =>
            DOMAIN state.user_profile # {} /\ DOMAIN state.job_search_params # {})

C3_Witness ==
    /\ args.cmd = "run_job_search_flow"
    /\ DOMAIN args.flags.user_profile = {}
    /\ DOMAIN args.flags.job_search_params # {}
    /\ pc = "done"
    /\ state.user_profile = DefaultProfile
    /\ state.job_search_params = args.flags.job_search_params

\* the results_wanted the command was given: the flag if given, else the
\* value of the JSON document
SuppliedResults ==
    IF args.cmd = "job_search"
    THEN IF Given(args.flags, "results_wanted") THEN {args.flags.results_wanted}
         ELSE IF Given(args.flags, "user_profile_json") /\ JsonDecodes(args.flags.user_profile_json)
         THEN LET q == ParamsOfDocument(json_loads(args.flags.user_profile_json))
              IN  IF "results_wanted" \in DOMAIN q THEN {q.results_wanted} ELSE {}
         ELSE {}
    ELSE IF args.cmd = "job_search_from_file" /\ JsonDecodes(args.flags.profile_file)
    THEN LET q == Get(json_loads(args.flags.profile_file), "job_search_params", EmptyDict)
         IN  IF "results_wanted" \in DOMAIN q THEN {q.results_wanted} ELSE {}
    ELSE {}

\* C4: a results_wanted n given in the JSON document or by --results-wanted
\* is rejected (no flow is launched) when n is outside 1..100, and when the
\* flow is launched it runs with results_wanted = n.
C4_RangeEnforced ==
    \A n \in SuppliedResults :
        /\ n \notin MinResults..MaxResults => pc = ""
        /\ pc # "" => state.job_search_params.results_wanted = n

\* the JSON profile and params job_search was given
JsonGiven == Given(args.flags, "user_profile_json") /\ JsonDecodes(args.flags.user_profile_json)
JsonProfile == ProfileOfDocument(json_loads(args.flags.user_profile_json))
JsonParams == ParamsOfDocument(json_loads(args.flags.user_profile_json))

\* job_search got as far as constructing the pydantic models
Validating ==
    args.cmd = "job_search" /\ outcome \notin {"idle", "parse_error", "profile_required"}

\* C5: when job_search is given a key both in the JSON document and by its
\* flag, the value validated for the key is the flag's.
C5_FlagWins ==
    Validating /\ JsonGiven =>
        /\ \A k \in {"name", "email", "phone", "location", "linkedin", "summary"} :
              Given(args.flags, k) /\ k \in DOMAIN JsonProfile =>
                  validated.user_profile[k] = args.flags[k]
        /\ \A k \in {"skills", "certifications"} :
              Given(args.flags, k) /\ k \in DOMAIN JsonProfile =>
                  validated.user_profile[k] = SplitList(args.flags[k])
        /\ \A k \in {"experience", "education"} :
              Given(args.flags, k) /\ k \in DOMAIN JsonProfile =>
                  validated.user_profile[k] = json_loads(args.flags[k])
        /\ Given(args.flags, "search_term") /\ "search_term" \in DOMAIN JsonParams =>
              validated.job_search_params.search_term = args.flags.search_term
        /\ Given(args.flags, "search_location") /\ "location" \in DOMAIN JsonParams =>
              validated.job_search_params.location = args.flags.search_location
        /\ Given(args.flags, "results_wanted") /\ "results_wanted" \in DOMAIN JsonParams =>
              validated.job_search_params.results_wanted = args.flags.results_wanted

\* a JSON input of the command is malformed
MalformedInput ==
    \/ /\ args.cmd = "job_search"
       /\ \E k \in {"user_profile_json", "experience", "education"} :
              Given(args.flags, k) /\ ~JsonDecodes(args.flags[k])
    \/ /\ args.cmd = "job_search_from_file"
       /\ ~JsonDecodes(args.flags.profile_file)

ParseErrorHeads ==
    {"Error parsing user profile JSON: ", "Error parsing experience JSON: ",
     "Error parsing education JSON: ", "Error parsing JSON file: "}

Violations ==
    IF args.cmd = "job_search_from_file"
    THEN IF JsonDecodes(args.flags.profile_file)
         THEN JobSearchConfigErrors(json_loads(args.flags.profile_file)) ELSE {}
    ELSE IF Validating
    THEN UserProfileErrors(validated.user_profile, <<>>)
         \cup JobSearchParamsErrors(validated.job_search_params, <<>>)
    ELSE {}

\* C7: the validation report has an entry with the full field path of every
\* violation in the profile and the params, and then no flow is launched.
C7_EveryViolationReported ==
    Violations # {} =>
        /\ outcome = "validation_error"
        /\ {l.path : l \in echo.lines} = {e.loc : e \in Violations}
        /\ pc = ""

ScrapeErrors == {o.msg : o \in {x \in ScrapeOutcomes : x.raised}}

\* C8: an exception of scrape_jobs never leaves JobSpyTool._run (it is never
\* the exception that ends the run); the tool returns the text
\* "Error searching for jobs: <message>".
C8_ScrapeErrorIsText ==
    scraped = "raised" =>
        /\ exception \notin ScrapeErrors
        /\ InCrew("search_jobs") /\ calls > 0 =>
              /\ tool_result.head = "Error searching for jobs: "
              /\ tool_result.arg \in ScrapeErrors
              /\ tool_result.jobs = <<>>

C8_Witness == scraped = "raised" /\ pc = "done" /\ outcome = "completed"

\* C9: when scrape_jobs returns no rows the tool's output is the literal
\* no-jobs message, with no header and no entries, and the call does not end
\* the run.
C9_EmptyIsNoJobsFound ==
    /\ [](scraped = "empty" /\ InCrew("search_jobs") /\ calls > 0 =>
             /\ tool_result.head = "No jobs found matching the search criteria."
             /\ tool_result.arg = ""
             /\ tool_result.jobs = <<>>)
    /\ [][scraped' = "empty" /\ InCrew("search_jobs") /\ tool_result' # tool_result
             => pc' = "kickoff" /\ exception' = ""]_vars

C9_Witness == scraped = "empty" /\ pc = "done" /\ state.resume_path # ""

\* C10: an exception while building or saving the document never leaves
\* ResumeGeneratorTool._run; the tool returns "Error generating resume: <message>".
C10_ResumeErrorIsText ==
    generated \in {"build_raised", "save_raised"} =>
        /\ exception \notin {BuildError, SaveError}
        /\ InCrew("generate_resume") /\ calls > 0 =>
              /\ tool_result.head = "Error generating resume: "
              /\ tool_result.arg = IF generated = "build_raised" THEN BuildError ELSE SaveError

C10_Witness == generated = "save_raised" /\ files = {} /\ pc = "done"

\* the run was started by one of the commands, which validate the profile
ByCommand == args.cmd \in {"job_search", "job_search_from_file"}

\* C11: for a profile accepted by validation whose optional fields are missing
\* (absent, or None as model_dump() leaves them) the resume tool does not fail
\* on the profile and the document it saves has the placeholder text in place
\* of the missing summary.
C11_MissingFieldsGetPlaceholders ==
    ByCommand /\ inputs # <<>> =>
        LET u == inputs[1].user_profile
        IN  /\ ~BuildRaises(u)
            /\ \A f \in files :
                  Get(u, "summary", None) = None => f.doc.summary = SummaryPlaceholder

NonEmptyStrings(d, fields) == \A k \in fields : d[k] # ""

\* C12: no profile accepted by validation has an empty required string (name;
\* title, company, duration, description of an experience; name, description
\* of a project; degree, school, year of an education).
C12_RequiredStringsNonEmpty ==
    ByCommand /\ pc # "" =>
        LET u == state.user_profile
        IN  /\ NonEmptyStrings(u, {"name"})
            /\ \A i \in 1..Len(u.experience) :
                  /\ NonEmptyStrings(u.experience[i],
                                     {"title", "company", "duration", "description"})
                  /\ \A j \in 1..Len(u.experience[i].projects) :
                        NonEmptyStrings(u.experience[i].projects[j], {"name", "description"})
            /\ \A i \in 1..Len(u.education) :
                  NonEmptyStrings(u.education[i], {"degree", "school", "year"})

\* C13: job_search_from_file exits with 0 exactly when the flow ran to
\* completion, and with a non-zero status on a schema violation and on
\* malformed JSON.
C13_ExitCodeTellsSuccess ==
    args.cmd = "job_search_from_file" /\ Ended =>
        /\ exit_code = 0 <=> outcome = "completed"
        /\ outcome \in {"validation_error", "parse_error"} => exit_code # 0

\* a profile was supplied and no job-search parameter was
NoParamsSupplied ==
    \/ /\ args.cmd = "run_job_search_flow"
       /\ DOMAIN args.flags.user_profile # {}
       /\ DOMAIN args.flags.job_search_params = {}
    \/ /\ args.cmd = "job_search"
       /\ \A k \in {"search_term", "search_location", "results_wanted"} : ~Given(args.flags, k)
       /\ Given(args.flags, "user_profile_json") => DOMAIN JsonParams = {}

\* C14: with a profile and no job-search parameters the crew searches with
\* search_term "Software Developer", location "Remote", results_wanted 10 and
\* fine_tune_search_string None, on every entry path.
C14_DefaultSearchParams ==
    /\ JobSearchParamsDump(EmptyDict) =
          [search_term |-> "Software Developer", location |-> "Remote",
           results_wanted |-> 10, fine_tune_search_string |-> None]
    /\ inputs # <<>> /\ NoParamsSupplied =>
          /\ inputs[1].search_term = "Software Developer"
          /\ inputs[1].location = "Remote"
          /\ inputs[1].results_wanted = 10
          /\ inputs[1].fine_tune_search_string = None

\* C15: the flow is in Done only with the resume path recorded: resume_path
\* is non-empty whenever finalize_results runs, and the summary it prints
\* shows the user name, search term, location and resume path of the final
\* state.
C15_DoneHasResumePath ==
    /\ [](pc \in {"finalize_results", "done"} => state.resume_path # "")
    /\ [](pc = "done" =>
            summary = [user |-> Get(state.user_profile, "name", NA),
                       search_term |-> Get(state.job_search_params, "search_term", NA),
                       location |-> Get(state.job_search_params, "location", NA),
                       resume |-> state.resume_path])

C15_Witness ==
    /\ pc = "done"
    /\ summary = [user |-> "Ann", search_term |-> "Software Developer",
                  location |-> "Remote", resume |-> DefaultFilename]

\* C16: once a step has raised the run is over: the flow is aborted, no later
\* step has run or runs, the fields of the later steps keep their initial
\* values, nothing is retried and Done is never entered.
C16_RaiseAbortsRun ==
    /\ [](exception # "" =>
            /\ pc = "aborted"
            /\ \A i \in 1..Len(executed) :
                  executed[i] \notin {"search_and_analyze_jobs",
                                      "generate_personalized_resume", "finalize_results"}
            /\ state.skills_analysis = JobSearchState.skills_analysis
            /\ state.resume_path = JobSearchState.resume_path
            /\ summary = NoSummary)
    /\ [][pc = "aborted" =>
            /\ pc' = "aborted"
            /\ UNCHANGED <<state, executed, task, calls, completed, tool_result,
                           files, summary, exception>>]_vars

C16_Witness ==
    /\ pc = "aborted"
    /\ exception = ModelError
    /\ executed = <<"collect_user_info">>
    /\ completed # <<>>

\* C17: in job_search a key of the JSON document for which no flag was passed
\* keeps the document's value; in particular the document's results_wanted is
\* used when --results-wanted is not passed.
C17_JsonValueKept ==
    Validating /\ JsonGiven =>
        /\ \A k \in DOMAIN JsonProfile :
              ~Given(args.flags, k) => validated.user_profile[k] = JsonProfile[k]
        /\ \A k \in DOMAIN JsonParams :
              ~Given(args.flags, IF k = "location" THEN "search_location" ELSE k)
                  => validated.job_search_params[k] = JsonParams[k]

\* C18: a description longer than 500 characters appears in the tool's output
\* as its first 500 characters followed by "..."; a description of at most 500
\* characters, exactly 500 included, appears unchanged.
C18_DescriptionTruncation ==
    InCrew("search_jobs") /\ calls > 0 /\ rows # <<>> =>
        /\ Len(tool_result.jobs) = Len(rows)
        /\ \A i \in 1..Len(rows) :
              "description" \in DOMAIN rows[i] =>
                  LET d == rows[i].description
                      out == tool_result.jobs[i].description
                  IN  /\ Len(d) > DescLimit => out = SubSeq(d, 1, DescLimit) \o Ellipsis
                      /\ Len(d) <= DescLimit => out = d

C18_Witness ==
    /\ InCrew("search_jobs")
    /\ calls > 0
    /\ rows # <<>>
    /\ "description" \in DOMAIN rows[1]
    /\ Len(rows[1].description) = DescLimit + 1
    /\ Len(tool_result.jobs[1].description) = DescLimit + Len(Ellipsis)

\* C20: the resume path recorded by generate_personalized_resume is the
\* constant "personalized_resume.docx" in every run that gets there, whatever
\* the crew did: the tool saved a file, failed, saved under another name or
\* was never called.
C20_ResumePathIsConstant ==
    /\ [](pc \in {"finalize_results", "done"} => state.resume_path = DefaultFilename)
    /\ [](pc = "done" => summary.resume = DefaultFilename)

\* Done reporting a path although the tool was never called and no file was
\* written
C20_Witness ==
    /\ pc = "done"
    /\ summary.resume = DefaultFilename
    /\ generated = ""
    /\ files = {}

\* C19: when every collaborator call returns, every launched run reaches
\* Done: Start leads to Searching, Searching to Analyzing, Analyzing to
\* Generating and Generating to Done with finalize_results finished, whatever
\* text the tools and the crew returned.
C19_EveryRunReachesDone ==
    /\ (FlowState = "Start") ~> (FlowState = "Searching")
    /\ (FlowState = "Searching") ~> (FlowState = "Analyzing")
    /\ (FlowState = "Analyzing") ~> (FlowState = "Generating")
    /\ (FlowState = "Generating") ~> (pc = "done")
    /\ (pc \notin {"", "done"}) ~> (pc = "done")

\* Done after the scraper failed, the resume tool failed and the crew answered
\* with the empty text
C19_Witness ==
    /\ pc = "done"
    /\ scraped = "raised"
    /\ generated = "build_raised"
    /\ result = ""
    /\ state.skills_analysis = ""

\* the tasks that have completed in this kickoff
Completed == {completed[i] : i \in 1..Len(completed)}

\* crew().kickoff() has returned to search_and_analyze_jobs
KickoffReturned ==
    (pc = "kickoff" /\ task = Len(Tasks) + 1)
    \/ \E i \in 1..Len(executed) : executed[i] = "search_and_analyze_jobs"

\* C21: in the crew a task runs only after every task of its context has
\* completed (search_jobs before analyze_skills_gap and before filter_jobs,
\* both of these before generate_resume), generate_resume is the last task,
\* and each of the four tasks runs exactly once per kickoff.
C21_ContextBeforeTask ==
    /\ \A i, j \in 1..Len(completed) : completed[i] = completed[j] => i = j
    /\ \A i \in 1..Len(completed) :
          Context(completed[i]) \subseteq {completed[j] : j \in 1..(i - 1)}
    /\ pc = "kickoff" /\ task \in 1..Len(Tasks) =>
          /\ Context(Tasks[task]) \subseteq Completed
          /\ Tasks[task] \notin Completed
    /\ KickoffReturned =>
          /\ Len(completed) = Len(Tasks)
          /\ Completed = {"search_jobs", "analyze_skills_gap", "filter_jobs", "generate_resume"}
          /\ completed[Len(completed)] = "generate_resume"

C21_Witness ==
    /\ pc = "kickoff"
    /\ task = Len(Tasks) + 1
    /\ Len(completed) = Len(Tasks)
    /\ completed[1] = "search_jobs"
    /\ completed[Len(completed)] = "generate_resume"

====
